---- MODULE Spec2Model ----
(***************************************************************************)
(* Model of songwish_processor.py (RDG Stuttgart song wish processor).     *)
(*                                                                         *)
(* Encodings                                                               *)
(*   text cell   [null, s]      s a tuple of one-character strings; the    *)
(*                              two-character strings "e'" "E'" "u:" stand *)
(*                              for the accented letters e-acute,          *)
(*                              E-acute and u-umlaut, "~" for a non-ASCII  *)
(*                              symbol without decomposition               *)
(*   timestamp   [null, parts]  parts = str(ts).strip().split(':'), each   *)
(*                              part a lexeme [cls, v]                     *)
(*   URL cell    [null, toks]   toks the lexical pieces of the string      *)
(*   call result [raised, ...]  raised = TRUE when the Python call leaves  *)
(*                              by an exception                            *)
(*                                                                         *)
(* A Python function whose local variables are used several times is       *)
(* written as a chain of operators, the locals being their parameters.     *)
(***************************************************************************)
EXTENDS Integers, Sequences, FiniteSets, TLC

\* ------------------------------------------------------------------ config
MAX_SONG_DURATION_SECONDS == 90
FIRST_GUARANTEED_COUNT == 50
FORM_URL == "https://forms.gle/YOUR_FORM_URL_HERE"

\* ------------------------------------------------------------------ bounds
\* most rows of an input table
MaxRows == 52
\* most rows of a table whose rows are drawn freely
MaxRich == 2

\* ------------------------------------------------------------ generic help
Min(a, b) == IF a <= b THEN a ELSE b

Range(s) == {s[i] : i \in 1..Len(s)}

\* Python "sub in s" on sequences of characters
Contains(sub, s) ==
    \E i \in 0..(Len(s) - Len(sub)) : SubSeq(s, i + 1, i + Len(sub)) = sub

\* concatenation of a sequence of sequences
RECURSIVE Flatten(_)
Flatten(ss) == IF ss = <<>> THEN <<>> ELSE Head(ss) \o Flatten(Tail(ss))

RECURSIVE JoinWith(_, _)
JoinWith(sep, ss) ==
    IF ss = <<>> THEN <<>>
    ELSE IF Len(ss) = 1 THEN Head(ss)
    ELSE Head(ss) \o sep \o JoinWith(sep, Tail(ss))

\* number of leading TRUEs of a sequence of booleans
Run(flags) ==
    IF \A i \in 1..Len(flags) : flags[i] THEN Len(flags)
    ELSE (CHOOSE i \in 1..Len(flags) :
              ~flags[i] /\ \A j \in 1..(i - 1) : flags[j]) - 1

DropN(s, n) == SubSeq(s, n + 1, Len(s))

\* ------------------------------------------------------------------ cells
NullText == [null |-> TRUE, s |-> <<>>]
Text(s) == [null |-> FALSE, s |-> s]

\* ------------------------------------------------------------- characters
UpperCase == <<"A","B","C","D","E","F","G","H","I","J","K","L","M",
               "N","O","P","Q","R","S","T","U","V","W","X","Y","Z">>
LowerCase == <<"a","b","c","d","e","f","g","h","i","j","k","l","m",
               "n","o","p","q","r","s","t","u","v","w","x","y","z">>
Digits == {"0","1","2","3","4","5","6","7","8","9"}

\* str.lower() on one character
LowerChar(c) ==
    IF \E i \in 1..26 : UpperCase[i] = c
    THEN LowerCase[CHOOSE i \in 1..26 : UpperCase[i] = c]
    ELSE IF c = "E'" THEN "e'" ELSE c

lower(s) == [i \in 1..Len(s) |-> LowerChar(s[i])]

\* unicodedata.normalize('NFKD', c).encode('ASCII', 'ignore').decode('ASCII')
FoldChar(c) ==
    CASE c = "e'" -> <<"e">>
      [] c = "E'" -> <<"E">>
      [] c = "u:" -> <<"u">>
      [] c = "~"  -> <<>>
      [] OTHER    -> <<c>>

AsciiFold(s) == Flatten([i \in 1..Len(s) |-> FoldChar(s[i])])

\* re.sub(r'[^a-z0-9]', '', c)
KeepChar(c) == IF c \in Range(LowerCase) \cup Digits THEN <<c>> ELSE <<>>
KeepAlnum(s) == Flatten([i \in 1..Len(s) |-> KeepChar(s[i])])

normalize_text(text) ==
    IF text.null THEN <<>>
    ELSE KeepAlnum(AsciiFold(lower(text.s)))

\* -------------------------------------------------------------- timestamps
\* Lexemes of one ':'-separated part of a timestamp string.
\*   int   : int() and float() accept it, value v           ("90", "-1")
\*   dec   : only float() accepts it, value v tenths        ("1.5")
\*   inf   : only float() accepts it, as an infinity        ("inf", "1e999")
\*   nan   : only float() accepts it, as not-a-number       ("nan")
\*   junk  : neither accepts it                             ("abc")
\*   empty : the empty string
Lex(c, v) == [cls |-> c, v |-> v]
IntLex(n) == Lex("int", n)
NullTs == [null |-> TRUE, parts |-> <<>>]
Ts(parts) == [null |-> FALSE, parts |-> parts]
EmptyTs == Ts(<<Lex("empty", 0)>>)

Returned(v) == [raised |-> FALSE, exc |-> "", val |-> v]
Raised(e) == [raised |-> TRUE, exc |-> e, val |-> 0]

\* Python int(str)
PyInt(lex) == IF lex.cls = "int" THEN Returned(lex.v) ELSE Raised("ValueError")

\* int() of a finite float given in tenths: truncation toward zero
Trunc(t) == IF t >= 0 THEN t \div 10 ELSE -((-t) \div 10)

\* Python int(float(str))
PyIntFloat(lex) ==
    CASE lex.cls = "int" -> Returned(lex.v)
      [] lex.cls = "dec" -> Returned(Trunc(lex.v))
      [] lex.cls = "inf" -> Raised("OverflowError")
      [] OTHER           -> Raised("ValueError")

\* h, m, s = int(parts[0]), int(parts[1]), int(parts[2]) and what follows
HoursOrMinutes(h, m, s) ==
    IF h.raised \/ m.raised \/ s.raised THEN Raised("ValueError")
    ELSE IF h.val < 10 /\ s.val = 0
         THEN Returned(h.val * 60 + m.val)
         ELSE Returned(h.val * 3600 + m.val * 60 + s.val)

\* int(parts[0]) * 60 + int(parts[1])
MinutesSeconds(m, s) ==
    IF m.raised \/ s.raised THEN Raised("ValueError")
    ELSE Returned(m.val * 60 + s.val)

\* the body of the try block of parse_timestamp
ParseBody(parts) ==
    IF Len(parts) = 3
    THEN HoursOrMinutes(PyInt(parts[1]), PyInt(parts[2]), PyInt(parts[3]))
    ELSE IF Len(parts) = 2
    THEN MinutesSeconds(PyInt(parts[1]), PyInt(parts[2]))
    ELSE IF Len(parts) = 1 THEN PyIntFloat(parts[1])
    ELSE Raised("ValueError")

\* except (ValueError, TypeError): return 0
Caught == {"ValueError", "TypeError"}
Except(r) == IF r.raised /\ r.exc \in Caught THEN Returned(0) ELSE r

parse_timestamp(ts) ==
    IF ts.null \/ ts = EmptyTs THEN Returned(0)
    ELSE Except(ParseBody(ts.parts))

\* -------------------------------------------------------------------- URLs
NullUrl == [null |-> TRUE, toks |-> <<>>]
Url(toks) == [null |-> FALSE, toks |-> toks]

SchemeWords == {"https", "http"}
ParamKey(t) ==
    CASE t = "v=1"           -> "v"
      [] t = "v=2"           -> "v"
      [] t = "t=5"           -> "t"
      [] t = "t="            -> "t"
      [] t = "list=PL"       -> "list"
      [] t = "index=3"       -> "index"
      [] t = "start_radio=1" -> "start_radio"
      [] t = "pp=x"          -> "pp"
      [] OTHER               -> ""
ParamBlank(t) == t = "t="
IsParam(t) == ParamKey(t) # ""
StartsSlash(t) == t \in {"//", "/watch", "/"}

\* str.strip()
RECURSIVE LStrip(_, _)
LStrip(s, ws) == IF s # <<>> /\ Head(s) = ws THEN LStrip(Tail(s), ws) ELSE s
RECURSIVE RStrip(_, _)
RStrip(s, ws) ==
    IF s # <<>> /\ s[Len(s)] = ws THEN RStrip(SubSeq(s, 1, Len(s) - 1), ws) ELSE s
strip(s) == RStrip(LStrip(s, "ws"), "ws")

\* urllib.parse.urlparse (fragment and ;params are not modelled), in the
\* order of its code: the scheme, the netloc, the query, the path
HasScheme(s) == Len(s) >= 2 /\ s[1] \in SchemeWords /\ s[2] = ":"
HasNetloc(r) == r # <<>> /\ Head(r) = "//"
NetlocOf(r) ==
    IF HasNetloc(r)
    THEN SubSeq(r, 2, 1 + Run([i \in 1..(Len(r) - 1) |->
                                 ~StartsSlash(r[i + 1]) /\ r[i + 1] # "?"]))
    ELSE <<>>
PathOf(r) == SubSeq(r, 1, Run([i \in 1..Len(r) |-> r[i] # "?"]))
SplitQuery(scheme, netloc, r, path) ==
    [scheme |-> scheme, netloc |-> netloc, path |-> path,
     query |-> IF Len(path) < Len(r) THEN DropN(r, Len(path) + 1) ELSE <<>>]
SplitPath(scheme, netloc, r) == SplitQuery(scheme, netloc, r, PathOf(r))
SplitNetloc(scheme, r, netloc) ==
    SplitPath(scheme, netloc,
              IF HasNetloc(r) THEN DropN(r, 1 + Len(netloc)) ELSE r)
SplitScheme(scheme, r) == SplitNetloc(scheme, r, NetlocOf(r))
urlparse(s) ==
    IF HasScheme(s) THEN SplitScheme(<<s[1]>>, DropN(s, 2))
    ELSE SplitScheme(<<>>, s)

\* keys of the fields of a query in order of first occurrence
RECURSIVE KeysInOrder(_, _)
KeysInOrder(fields, seen) ==
    IF fields = <<>> THEN <<>>
    ELSE IF ParamKey(Head(fields)) \in seen
         THEN KeysInOrder(Tail(fields), seen)
         ELSE <<ParamKey(Head(fields))>>
              \o KeysInOrder(Tail(fields), seen \cup {ParamKey(Head(fields))})

\* urllib.parse.parse_qs: a dict key -> list of values, in insertion order;
\* fields without '=' and fields with a blank value are dropped
GroupFields(fields, keys) ==
    [i \in 1..Len(keys) |->
        [key |-> keys[i],
         values |-> SelectSeq(fields, LAMBDA t : ParamKey(t) = keys[i])]]
GroupByKey(fields) == GroupFields(fields, KeysInOrder(fields, {}))
parse_qs(query) ==
    GroupByKey(SelectSeq(query, LAMBDA t : IsParam(t) /\ ~ParamBlank(t)))

\* urllib.parse.urlencode(query_params, doseq=True)
urlencode(qp) ==
    JoinWith(<<"&">>, Flatten([k \in 1..Len(qp) |->
        [i \in 1..Len(qp[k].values) |-> <<qp[k].values[i]>>]]))

params_to_remove == {"list", "index", "start_radio", "pp"}

\* query_params.pop(param, None) for the four parameters
PopParams(qp) == SelectSeq(qp, LAMBDA e : e.key \notin params_to_remove)

\* the f-strings that rebuild the URL
Rebuild(base, query_params) ==
    IF query_params # <<>>
    THEN Url(base \o <<"?">> \o urlencode(query_params))
    ELSE Url(base)

CleanParsed(parsed) ==
    Rebuild(parsed.scheme \o <<":", "//">> \o parsed.netloc \o parsed.path,
            PopParams(parse_qs(parsed.query)))

clean_youtube_url(url) ==
    IF url.null \/ url.toks = <<>> THEN NullUrl
    ELSE CleanParsed(urlparse(strip(url.toks)))

\* --------------------------------------------------------------- reasons
\* A Reason string is a sequence of segments: a German segment, the
\* separator " / ", an English segment; "; ".join puts a "join" segment
\* between two strings.  k names the message.
Seg(t, k) == [t |-> t, k |-> k]
Msg(k) == <<Seg("de", k), Seg("sep", ""), Seg("en", k)>>
JoinErrors(errors) == JoinWith(<<Seg("join", "")>>, errors)

\* the check (1..5) whose code builds message k; 0 for validate_song itself
CheckOf(k) ==
    CASE k \in {"fetch_match", "artist", "songtitle"} -> 1
      [] k \in {"fetch_lyric", "not_lyric"}           -> 2
      [] k \in {"invalid_ts", "too_long"}             -> 3
      [] k = "age18"                                  -> 4
      [] k = "blocked"                                -> 5
      [] OTHER                                        -> 0

\* ------------------------------------------------------- metadata provider
\* A field of the dict yt-dlp returns: the key may be absent, or present
\* with the value None, or present with a value.
\* (v is a placeholder of the field's type when there is no value)
Absent == [present |-> FALSE, none |-> FALSE, v |-> <<>>]
None == [present |-> TRUE, none |-> TRUE, v |-> <<>>]
AbsentNum == [present |-> FALSE, none |-> FALSE, v |-> 0]
NoneNum == [present |-> TRUE, none |-> TRUE, v |-> 0]
Val(v) == [present |-> TRUE, none |-> FALSE, v |-> v]

\* dict.get(key, default)
Get(field, default) == IF field.present THEN field ELSE Val(default)

\* what ydl.extract_info does: raises, or returns the info dict
Failure == [error |-> TRUE, title |-> Absent, description |-> Absent,
            tags |-> Absent, age_limit |-> AbsentNum]
Info(t, d, g, a) == [error |-> FALSE, title |-> t, description |-> d,
                     tags |-> g, age_limit |-> a]

\* the values of get_youtube_info: None, {'error': ...}, or the dict
NoInfo == [none |-> TRUE, error |-> FALSE, title |-> None, description |-> None,
           tags |-> None, age_limit |-> NoneNum]
ErrorInfo == [none |-> FALSE, error |-> TRUE, title |-> None,
              description |-> None, tags |-> None, age_limit |-> NoneNum]

\* "not url" for a URL value: None or the empty string
NotUrl(url) == url.null \/ url.toks = <<>>

get_youtube_info(url, outcome) ==
    IF NotUrl(url) THEN NoInfo
    ELSE IF outcome.error THEN ErrorInfo
    ELSE [none |-> FALSE, error |-> FALSE,
          title |-> Get(outcome.title, <<>>),
          description |-> Get(outcome.description, <<>>),
          tags |-> Get(outcome.tags, <<>>),
          age_limit |-> Get(outcome.age_limit, 0)]

\* ------------------------------------------------------------------ checks
Pass == [raised |-> FALSE, exc |-> "", ok |-> TRUE, msg |-> <<>>]
Fail(msg) == [raised |-> FALSE, exc |-> "", ok |-> FALSE, msg |-> msg]
Throw(e) == [raised |-> TRUE, exc |-> e, ok |-> FALSE, msg |-> <<>>]

\* "not video_info or 'error' in video_info"
NoVideo(video_info) == video_info.none \/ video_info.error

negative_indicators == <<
    <<"o","f","f","i","c","i","a","l"," ","m","v">>,
    <<"o","f","f","i","c","i","a","l"," ","m","u","s","i","c"," ","v","i","d","e","o">>,
    <<"d","a","n","c","e"," ","p","r","a","c","t","i","c","e">>,
    <<"d","a","n","c","e"," ","p","r","a","c","t","i","c","e"," ","v","i","d","e","o">>,
    <<"c","h","o","r","e","o","g","r","a","p","h","y"," ","v","i","d","e","o">>,
    <<"p","e","r","f","o","r","m","a","n","c","e"," ","v","i","d","e","o">>,
    <<"m","/","v">>,
    <<"(","m","v",")">>,
    <<"[","m","v","]">> >>

\* "for neg in negative_indicators: if neg in title_lower"
HasNegative(title_lower) ==
    \E n \in 1..Len(negative_indicators) :
        Contains(negative_indicators[n], title_lower)

\* .lower() of a title or description that is None raises AttributeError
check_is_lyric_video(video_info) ==
    IF NoVideo(video_info) THEN Fail(Msg("fetch_lyric"))
    ELSE IF video_info.title.none \/ video_info.description.none
         THEN Throw("AttributeError")
         ELSE IF HasNegative(lower(lower(video_info.title.v)))
              THEN Fail(Msg("not_lyric"))
              ELSE Pass

\* one of the two "if x_normalized and x_normalized not in yt_title_normalized"
Missing(normalized, yt_title_normalized, k) ==
    IF normalized # <<>> /\ ~Contains(normalized, yt_title_normalized)
    THEN <<Msg(k)>> ELSE <<>>

MatchResult(errors) ==
    IF errors # <<>> THEN Fail(JoinErrors(errors)) ELSE Pass

MatchTitle(yt_title_normalized, artist, song_title) ==
    MatchResult(Missing(normalize_text(artist), yt_title_normalized, "artist")
                \o Missing(normalize_text(song_title), yt_title_normalized,
                           "songtitle"))

check_artist_title_match(video_info, artist, song_title) ==
    IF NoVideo(video_info) THEN Fail(Msg("fetch_match"))
    ELSE MatchTitle(normalize_text([null |-> video_info.title.none,
                                    s |-> video_info.title.v]),
                    artist, song_title)

\* variant: the maximum itself is rejected
DurationResult_excl(duration) ==
    IF duration <= 0 THEN Fail(Msg("invalid_ts"))
    ELSE IF duration >= MAX_SONG_DURATION_SECONDS THEN Fail(Msg("too_long"))
    ELSE Pass

DurationResult(duration) ==
    IF duration <= 0 THEN Fail(Msg("invalid_ts"))
    ELSE IF duration > MAX_SONG_DURATION_SECONDS THEN Fail(Msg("too_long"))
    ELSE Pass

Duration(start_seconds, end_seconds) ==
    IF start_seconds.raised THEN Throw(start_seconds.exc)
    ELSE IF end_seconds.raised THEN Throw(end_seconds.exc)
    ELSE DurationResult(end_seconds.val - start_seconds.val)

check_duration(start_ts, end_ts) ==
    Duration(parse_timestamp(start_ts), parse_timestamp(end_ts))

\* variant: an unfetched video counts as age-restricted
check_age_restriction_closed(video_info) ==
    IF NoVideo(video_info) THEN Fail(Msg("age18"))
    ELSE IF /\ ~video_info.age_limit.none
            /\ video_info.age_limit.v # 0
            /\ video_info.age_limit.v >= 18
         THEN Fail(Msg("age18"))
         ELSE Pass

check_age_restriction(video_info) ==
    IF NoVideo(video_info) THEN Pass
    ELSE IF /\ ~video_info.age_limit.none
            /\ video_info.age_limit.v # 0
            /\ video_info.age_limit.v >= 18
         THEN Fail(Msg("age18"))
         ELSE Pass

\* the blocked songs file: missing, or rows of (Artist, Title) cells
NoFile == [missing |-> TRUE, rows |-> <<>>]
File(rows) == [missing |-> FALSE, rows |-> rows]

load_blocked_songs(file) ==
    IF file.missing THEN {}
    ELSE {<<normalize_text(file.rows[i][1]), normalize_text(file.rows[i][2])>> :
            i \in {j \in 1..Len(file.rows) :
                     /\ normalize_text(file.rows[j][1]) # <<>>
                     /\ normalize_text(file.rows[j][2]) # <<>>}}

check_blocked_song(artist, title, blocked) ==
    IF <<normalize_text(artist), normalize_text(title)>> \in blocked
    THEN Fail(Msg("blocked"))
    ELSE Pass

\* ------------------------------------------------------------ validate_song
\* errors, clean_url: the returned pair.  fetched: get_youtube_info was
\* called.  ran: the checks whose code was entered, in order.
VReturn(errors, clean_url, fetched, ran) ==
    [raised |-> FALSE, exc |-> "", errors |-> errors, clean_url |-> clean_url,
     fetched |-> fetched, ran |-> ran]
VRaise(e, clean_url, ran) ==
    [raised |-> TRUE, exc |-> e, errors |-> <<>>, clean_url |-> clean_url,
     fetched |-> TRUE, ran |-> ran]

\* variant: errors.insert(0, msg)
Append1_front(errors, c) == IF c.ok THEN errors ELSE <<c.msg>> \o errors

\* "if not ok: errors.append(error)"
Append1(errors, c) == IF c.ok THEN errors ELSE Append(errors, c.msg)

\* the five checks in the order of the code; a check that raises ends the call
RunChecks(clean_url, c1, c2, c3, c4, c5) ==
    IF c2.raised THEN VRaise(c2.exc, clean_url, <<1, 2>>)
    ELSE IF c3.raised THEN VRaise(c3.exc, clean_url, <<1, 2, 3>>)
    ELSE VReturn(
           Append1(Append1(Append1(Append1(Append1(<<>>, c1), c2), c3), c4), c5),
           clean_url, TRUE, <<1, 2, 3, 4, 5>>)

\* after "video_info = get_youtube_info(clean_url)"
Validate(clean_url, video_info, artist, title, start_ts, end_ts, blocked) ==
    IF ~video_info.none /\ video_info.error
    THEN VReturn(<<Msg("yt_error")>>, clean_url, TRUE, <<>>)
    ELSE RunChecks(clean_url,
                   check_artist_title_match(video_info, artist, title),
                   check_is_lyric_video(video_info),
                   check_duration(start_ts, end_ts),
                   check_age_restriction(video_info),
                   check_blocked_song(artist, title, blocked))

\* after "clean_url = clean_youtube_url(url)"
ValidateClean(clean_url, artist, title, start_ts, end_ts, blocked, outcome) ==
    IF NotUrl(clean_url)
    THEN VReturn(<<Msg("no_url")>>, clean_url, FALSE, <<>>)
    ELSE Validate(clean_url, get_youtube_info(clean_url, outcome),
                  artist, title, start_ts, end_ts, blocked)

\* outcome: what the metadata provider does if it is asked
validate_song(url, artist, title, start_ts, end_ts, blocked, outcome) ==
    ValidateClean(clean_youtube_url(url), artist, title, start_ts, end_ts,
                  blocked, outcome)

\* ------------------------------------------------------- contact, message
StripText(s) == RStrip(LStrip(s, " "), " ")

\* "pd.notna(x) and x" for a text cell
Filled(cell) == ~cell.null /\ cell.s # <<>>

\* "if name.startswith('@'): name = name[1:]"
DropAt(n) == IF n # <<>> /\ Head(n) = "@" THEN Tail(n) ELSE n

create_contact_url(row) ==
    IF row.contact_pref = "Instagram" /\ Filled(row.instagram)
    THEN <<"https://www.instagram.com/">> \o DropAt(StripText(row.instagram.s))
    ELSE IF row.contact_pref = "WhatsApp" /\ Filled(row.whatsapp)
    THEN <<"https://wa.me/">>
         \o SelectSeq(row.whatsapp.s, LAMBDA c : c \in Digits)
    ELSE IF Filled(row.other_contact) THEN row.other_contact.s
    ELSE <<>>

get_greeting_name(row) ==
    IF row.contact_pref = "Instagram" /\ Filled(row.instagram)
    THEN Text(DropAt(StripText(row.instagram.s)))
    ELSE NullText

\* e.split(' / '): the runs of segments between separators
RECURSIVE SplitSep(_)
SplitSep(e) ==
    IF \A i \in 1..Len(e) : e[i].t # "sep" THEN <<e>>
    ELSE <<SubSeq(e, 1, Run([i \in 1..Len(e) |-> e[i].t # "sep"]))>>
         \o SplitSep(DropN(e, Run([i \in 1..Len(e) |-> e[i].t # "sep"]) + 1))

\* the language cell is a sequence of words
IsGerman(language) ==
    ~language.null /\ (\E w \in Range(language.s) : w \in {"flag_de", "Deutsch"})

\* e.split(' / ')[0] and e.split(' / ')[-1]
First(parts) == parts[1]
Last(parts) == parts[Len(parts)]

\* The message text is kept as the values its template is filled with.
Message(is_german, name, errors, form_url) ==
    [lang |-> IF is_german THEN "de" ELSE "en",
     name |-> name,
     accepted |-> errors = <<>>,
     error_list |-> [i \in 1..Len(errors) |->
                        IF is_german THEN First(SplitSep(errors[i]))
                        ELSE Last(SplitSep(errors[i]))],
     form_url |-> IF errors = <<>> THEN "" ELSE form_url]

create_message(row, errors, language, form_url) ==
    Message(IsGerman(language), get_greeting_name(row), errors, form_url)

\* ------------------------------------------------------------------ state
VARIABLES
    call,           \* the call of a function applied on its own
    pc,             \* position of process_songwishes
    exc,            \* the exception that ended the run, [type, at]
    nrows,          \* len(df) after the translation row is skipped
    batch,          \* how the rows of the input table are drawn
    blocked_songs,  \* the loaded block list
    results,        \* the list results
    idx,            \* rows of df consumed by the main loop
    ws_messages,    \* sheet "Messages": row number -> data row
    ws_songlist,    \* sheet "Songlist": row number -> data row
    cursor,         \* elements consumed by the current output loop
    row_num,        \* row_num of the Songlist loops
    song_counter    \* song_counter of the Songlist loops

vars == <<call, pc, exc, nrows, batch, blocked_songs, results, idx,
          ws_messages, ws_songlist, cursor, row_num, song_counter>>

batchVars == <<pc, exc, nrows, batch, blocked_songs, results, idx,
               ws_messages, ws_songlist, cursor, row_num, song_counter>>

NoExc == [type |-> "", at |-> ""]
EmptySheet == [r \in {} |-> <<>>]

Init ==
    /\ call = [fn |-> "none"]
    /\ pc = "start"
    /\ exc = NoExc
    /\ nrows = 0
    /\ batch = "none"
    /\ blocked_songs = {}
    /\ results = <<>>
    /\ idx = 0
    /\ ws_messages = EmptySheet
    /\ ws_songlist = EmptySheet
    /\ cursor = 0
    /\ row_num = 0
    /\ song_counter = 0

\* ----------------------------------------------------- inputs of the calls
T_Ab == <<"A", "b">>
T_Xy == <<"X", "y">>

TsAll ==
    { NullTs, EmptyTs,
      Ts(<<IntLex(0)>>), Ts(<<IntLex(50)>>), Ts(<<IntLex(90)>>),
      Ts(<<IntLex(91)>>), Ts(<<IntLex(120)>>),
      Ts(<<IntLex(1), IntLex(30)>>), Ts(<<IntLex(0), IntLex(10)>>),
      Ts(<<IntLex(0), IntLex(90), IntLex(0)>>),
      Ts(<<IntLex(1), IntLex(30), IntLex(0)>>),
      Ts(<<IntLex(2), IntLex(5), IntLex(10)>>),
      Ts(<<IntLex(10), IntLex(0), IntLex(0)>>),
      Ts(<<IntLex(-1), IntLex(30), IntLex(0)>>),
      Ts(<<Lex("dec", 19)>>), Ts(<<Lex("dec", -19)>>),
      Ts(<<Lex("inf", 0)>>), Ts(<<Lex("nan", 0)>>), Ts(<<Lex("junk", 0)>>),
      Ts(<<IntLex(1), Lex("junk", 0)>>), Ts(<<IntLex(1), Lex("dec", 305)>>),
      Ts(<<IntLex(1), IntLex(2), IntLex(3), IntLex(4)>>) }

U_Full == Url(<<"ws", "https", ":", "//", "youtube.com", "/watch", "?",
                "v=1", "&", "list=PL">>)
U_NoScheme == Url(<<"youtube.com", "/watch", "?", "v=1">>)
U_Empty == Url(<<>>)
U_Blank == Url(<<"ws">>)
UrlInputs == {NullUrl, U_Empty, U_Blank, U_Full, U_NoScheme}

ArtistInputs == {NullText, Text(T_Ab), Text(<<"a", "B", "!">>)}
TitleInputs == {NullText, Text(T_Xy)}
T0 == Ts(<<IntLex(0)>>)
StartInputs == {T0, Ts(<<IntLex(50)>>)}
EndInputs == {Ts(<<IntLex(10)>>), Ts(<<IntLex(1), IntLex(30)>>),
              Ts(<<IntLex(120)>>), Ts(<<Lex("inf", 0)>>), NullTs}

BlockFiles == {NoFile,
               File(<<<<Text(<<"A", "B">>), Text(<<"x", "Y", "?">>)>>,
                      <<Text(T_Ab), NullText>>>>)}

VideoTitles == {Val(<<"A", "b", " ", "-", " ", "X", "y">>),
                Val(<<"A", "B", " ", "x", "y", " ", "(", "M", "V", ")">>),
                Val(<<"Z", "z">>),
                Val(<<"Z", "z", " ", "m", "/", "v">>),
                None}
Outcomes ==
    {Failure} \cup
    {Info(t, d, None, a) :
        t \in VideoTitles,
        d \in {Val(<<"l", "y", "r", "i", "c", "s">>), None},
        a \in {AbsentNum, NoneNum, Val(16), Val(18)}}

\* video_info values a check can be handed
VideoInfos == {get_youtube_info(u, o) : u \in {NullUrl, U_Full}, o \in Outcomes}

\* ------------------------------------------------ functions applied alone
\* Each behaviour applies one function once to one choice of inputs.
ApplyParseTimestamp ==
    /\ call.fn = "none"
    /\ pc = "start"
    /\ \E ts \in TsAll :
         call' = [fn |-> "parse_timestamp", ts |-> ts, res |-> parse_timestamp(ts)]
    /\ UNCHANGED batchVars

ApplyCheckDuration ==
    /\ call.fn = "none"
    /\ pc = "start"
    /\ \E s \in TsAll, e \in TsAll :
         call' = [fn |-> "check_duration", start_ts |-> s, end_ts |-> e,
                  res |-> check_duration(s, e)]
    /\ UNCHANGED batchVars

ApplyChecks ==
    /\ call.fn = "none"
    /\ pc = "start"
    /\ \E vi \in VideoInfos, a \in ArtistInputs, t \in TitleInputs :
         call' = [fn |-> "checks", video_info |-> vi, artist |-> a, title |-> t,
                  match |-> check_artist_title_match(vi, a, t),
                  lyric |-> check_is_lyric_video(vi),
                  age |-> check_age_restriction(vi)]
    /\ UNCHANGED batchVars

ApplyValidateSong ==
    /\ call.fn = "none"
    /\ pc = "start"
    /\ \E u \in UrlInputs, a \in ArtistInputs, t \in TitleInputs,
          s \in StartInputs, e \in EndInputs, f \in BlockFiles, o \in Outcomes :
         call' = [fn |-> "validate_song", url |-> u, artist |-> a, title |-> t,
                  start_ts |-> s, end_ts |-> e,
                  blocked |-> load_blocked_songs(f), outcome |-> o,
                  res |-> validate_song(u, a, t, s, e, load_blocked_songs(f), o)]
    /\ UNCHANGED batchVars

\* URLs with and without scheme, host and the parameters that are removed
CleanInputs ==
    UrlInputs \cup
    { Url(<<"https", ":", "//", "youtube.com", "/watch", "?", "list=PL", "&",
            "v=1", "&", "index=3", "&", "v=2", "&", "t=">>),
      Url(<<"http", ":", "//", "youtube.com", "/watch", "?", "start_radio=1",
            "&", "pp=x", "ws">>),
      Url(<<"https", ":", "//", "youtube.com", "/watch">>),
      Url(<<"//", "youtube.com", "/watch", "?", "v=1", "&", "t=5">>),
      Url(<<"youtube.com", "/watch", "?", "pp=x">>),
      Url(<<"/watch", "?", "v=2", "&", "list=PL">>) }

\* clean_youtube_url applied to a URL, and applied again to its result
ApplyCleanUrl ==
    /\ call.fn = "none"
    /\ pc = "start"
    /\ \E url \in CleanInputs :
         call' = [fn |-> "clean_youtube_url", url |-> url,
                  res |-> clean_youtube_url(url),
                  again |-> clean_youtube_url(clean_youtube_url(url))]
    /\ UNCHANGED batchVars

NextFn ==
    \/ ApplyCleanUrl
    \/ ApplyParseTimestamp
    \/ ApplyCheckDuration
    \/ ApplyChecks
    \/ ApplyValidateSong

SpecFn == Init /\ [][NextFn]_vars

\* ----------------------------------------------------- rows of the input
Song(url, artist, title, start_ts, end_ts, note) ==
    [url |-> url, artist |-> artist, title |-> title,
     start_ts |-> start_ts, end_ts |-> end_ts, note |-> note]

Contact(pref, instagram, whatsapp, other) ==
    [contact_pref |-> pref, instagram |-> instagram, whatsapp |-> whatsapp,
     other_contact |-> other]

Row(email, language, c, s1, s2) ==
    [email |-> email, language |-> language,
     contact_pref |-> c.contact_pref, instagram |-> c.instagram,
     whatsapp |-> c.whatsapp, other_contact |-> c.other_contact,
     url1 |-> s1.url, artist1 |-> s1.artist, title1 |-> s1.title,
     start1 |-> s1.start_ts, end1 |-> s1.end_ts, note1 |-> s1.note,
     url2 |-> s2.url, artist2 |-> s2.artist, title2 |-> s2.title,
     start2 |-> s2.start_ts, end2 |-> s2.end_ts, note2 |-> s2.note]

German == Text(<<"flag_de", "Deutsch">>)
English == Text(<<"flag_en", "English">>)
ByInstagram == Contact("Instagram", Text(<<" ", "@", "n", "a">>), NullText, NullText)
ByWhatsApp == Contact("WhatsApp", NullText, Text(<<"+", "4", "9", " ", "1">>), NullText)
ByOther == Contact("Other", NullText, NullText, Text(<<"m", "@", "x">>))
NoContact == Contact("Instagram", NullText, NullText, NullText)

GoodSong == Song(U_Full, Text(T_Ab), Text(T_Xy), T0,
                 Ts(<<IntLex(1), IntLex(30)>>), Text(<<"n">>))
LongSong == Song(U_NoScheme, Text(T_Ab), Text(T_Xy), T0,
                 Ts(<<IntLex(120)>>), NullText)
InfSong == Song(U_Full, Text(T_Ab), NullText, T0, Ts(<<Lex("inf", 0)>>), NullText)
NoUrlSong == Song(NullUrl, Text(T_Ab), Text(T_Xy), T0,
                  Ts(<<IntLex(1), IntLex(30)>>), Text(<<"n">>))
BlankUrlSong == Song(U_Blank, NullText, NullText, NullTs, NullTs, NullText)

\* the e-mail address of row i
Addr(i) == Text(<<"u", LowerCase[1 + (i \div 26)], LowerCase[1 + (i % 26)]>>)

\* rows a small table is drawn from
RichRows(i) ==
    { Row(Addr(i), German, ByInstagram, GoodSong, NoUrlSong),
      Row(Addr(i), English, ByWhatsApp, LongSong, GoodSong),
      Row(Addr(i), NullText, ByOther, NoUrlSong, BlankUrlSong),
      Row(Addr(i), German, NoContact, InfSong, NoUrlSong),
      Row(Addr(i), English, ByInstagram, GoodSong,
          Song(U_Empty, Text(T_Ab), Text(T_Xy), T0, Ts(<<IntLex(120)>>),
               Text(<<"n">>))),
      Row(Addr(i), IF i % 2 = 0 THEN German ELSE English, ByOther,
          Song(U_Full, Text(<<"Z", "z">>), Text(<<"Q">>), T0,
               Ts(<<IntLex(1), IntLex(30)>>), NullText),
          NoUrlSong) }

GoodInfo == Info(Val(<<"A", "b", " ", "-", " ", "X", "y">>),
                 Val(<<"l", "y", "r", "i", "c", "s">>), None, AbsentNum)
NoDescription == Info(Val(<<"A", "b", " ", "-", " ", "X", "y">>),
                      None, None, AbsentNum)
RichOutcomes == {GoodInfo, Failure, NoDescription}

\* row i (0-based) of a long table
PatternRow(p, i) ==
    IF p = "uniform"
    THEN Row(Addr(i), German, ByInstagram, GoodSong, NoUrlSong)
    ELSE Row(Addr(i), IF i % 2 = 0 THEN English ELSE German, ByOther,
             IF i % 3 = 0 THEN NoUrlSong
             ELSE IF i % 5 = 0 THEN LongSong ELSE GoodSong,
             IF i % 2 = 0 THEN GoodSong ELSE NoUrlSong)
PatternOutcome(p, i) ==
    IF p # "uniform" /\ i % 7 = 0 THEN Failure ELSE GoodInfo

Patterns == {"uniform", "mixed"}
RowChoices(i) ==
    IF batch = "rich" THEN RichRows(i) ELSE {PatternRow(batch, i)}
OutcomeChoices(i) ==
    IF batch = "rich" THEN RichOutcomes ELSE {PatternOutcome(batch, i)}

\* ------------------------------------------------------ process_songwishes
Crash(type, at) ==
    /\ pc' = "crashed"
    /\ exc' = [type |-> type, at |-> at]

\* pd.read_excel, the translation row, load_blocked_songs.  n is len(df)
\* after the skip; a file without any row makes df.iloc[0] raise.
ReadInput ==
    /\ pc = "start"
    /\ call.fn = "none"
    /\ \E n \in 0..MaxRows, translated \in BOOLEAN,
          b \in Patterns \cup {"rich"}, file \in BlockFiles :
         /\ b = "rich" => n <= MaxRich
         /\ IF n = 0 /\ ~translated
            THEN /\ Crash("IndexError", "read_input")
                 /\ UNCHANGED <<nrows, batch, blocked_songs>>
            ELSE /\ pc' = "rows"
                 /\ nrows' = n
                 /\ batch' = b
                 /\ blocked_songs' = load_blocked_songs(file)
                 /\ exc' = exc
    /\ UNCHANGED <<call, results, idx, ws_messages, ws_songlist, cursor,
                   row_num, song_counter>>

\* "pd.notna(url2) and url2"
GivenUrl(url) == ~url.null /\ url.toks # <<>>

\* the dict appended to results
Result(row, i, v1, v2) ==
    [row_index |-> i, email |-> row.email, language |-> row.language,
     contact_pref |-> row.contact_pref, instagram |-> row.instagram,
     whatsapp |-> row.whatsapp, other_contact |-> row.other_contact,
     url1 |-> v1.clean_url, artist1 |-> row.artist1, title1 |-> row.title1,
     start1 |-> row.start1, end1 |-> row.end1, note1 |-> row.note1,
     errors1 |-> v1.errors,
     url2 |-> v2.clean_url, artist2 |-> row.artist2, title2 |-> row.title2,
     start2 |-> row.start2, end2 |-> row.end2, note2 |-> row.note2,
     errors2 |-> v2.errors,
     contact_url |-> create_contact_url(row),
     message |-> create_message(row, v1.errors, row.language, FORM_URL),
     \* not in the code: whether the metadata provider was asked, and the
     \* second URL cell as submitted
     fetched1 |-> v1.fetched, fetched2 |-> v2.fetched, given2 |-> row.url2]

\* the rest of an iteration once both songs are validated
Record(row, v1, v2) ==
    IF v1.raised
    THEN Crash(v1.exc, "validate_song") /\ UNCHANGED <<results, idx>>
    ELSE IF v2.raised
    THEN Crash(v2.exc, "validate_song") /\ UNCHANGED <<results, idx>>
    ELSE /\ results' = Append(results, Result(row, idx, v1, v2))
         /\ idx' = idx + 1
         /\ UNCHANGED <<pc, exc>>

\* variant: the second song is validated whatever its URL cell holds
ValidateSecond_always(row, o2) ==
    validate_song(row.url2, row.artist2, row.title2, row.start2, row.end2,
                  blocked_songs, o2)

\* "validate_song(url2, ...) if pd.notna(url2) and url2 else ([], None)"
ValidateSecond(row, o2) ==
    IF GivenUrl(row.url2)
    THEN validate_song(row.url2, row.artist2, row.title2, row.start2,
                       row.end2, blocked_songs, o2)
    ELSE VReturn(<<>>, NullUrl, FALSE, <<>>)

\* one iteration of "for idx, row in df.iterrows()"
ProcessRow ==
    /\ pc = "rows"
    /\ idx < nrows
    /\ \E row \in RowChoices(idx), o1 \in OutcomeChoices(idx),
          o2 \in OutcomeChoices(idx) :
         Record(row,
                validate_song(row.url1, row.artist1, row.title1, row.start1,
                              row.end1, blocked_songs, o1),
                ValidateSecond(row, o2))
    /\ UNCHANGED <<call, nrows, batch, blocked_songs, ws_messages, ws_songlist,
                   cursor, row_num, song_counter>>

\* the loop is over: the workbook and the header of sheet "Messages"
BeginMessages ==
    /\ pc = "rows"
    /\ idx = nrows
    /\ pc' = "messages"
    /\ cursor' = 0
    /\ UNCHANGED <<call, exc, nrows, batch, blocked_songs, results, idx,
                   ws_messages, ws_songlist, row_num, song_counter>>

\* variant: no limit
Guaranteed_all(rs) == rs

\* results[:FIRST_GUARANTEED_COUNT]
Guaranteed(rs) == SubSeq(rs, 1, Min(Len(rs), FIRST_GUARANTEED_COUNT))

\* ws.cell(row=r, ...) for the cells of one row
WriteRow(ws, r, cells) == (r :> cells) @@ ws

\* the cells of row i + 2 of sheet "Messages"
MessageCells(i, result) ==
    [num |-> i + 1,
     contact_url |-> result.contact_url,
     message |-> result.message,
     status |-> IF result.errors1 # <<>> THEN "Fehler / Error" ELSE "OK",
     artist |-> result.artist1,
     title |-> result.title1,
     errors |-> JoinErrors(result.errors1),
     fill |-> IF result.errors1 # <<>> THEN "error" ELSE "success"]

\* one iteration of "for i, result in enumerate(results[:50])"
MessageRow ==
    /\ pc = "messages"
    /\ cursor < Len(Guaranteed(results))
    /\ ws_messages' = WriteRow(ws_messages, cursor + 2,
                               MessageCells(cursor, Guaranteed(results)[cursor + 1]))
    /\ cursor' = cursor + 1
    /\ UNCHANGED <<call, pc, exc, nrows, batch, blocked_songs, results, idx,
                   ws_songlist, row_num, song_counter>>

\* the header of sheet "Songlist"; row_num = 2, song_counter = 1
BeginSonglist ==
    /\ pc = "messages"
    /\ cursor = Len(Guaranteed(results))
    /\ pc' = "songs1"
    /\ cursor' = 0
    /\ row_num' = 2
    /\ song_counter' = 1
    /\ UNCHANGED <<call, exc, nrows, batch, blocked_songs, results, idx,
                   ws_messages, ws_songlist>>

\* a song of a result: its slot and its fields
Song1(result) ==
    [slot |-> 1, row_index |-> result.row_index, email |-> result.email,
     url |-> result.url1, artist |-> result.artist1, title |-> result.title1,
     start_ts |-> result.start1, end_ts |-> result.end1, note |-> result.note1,
     errors |-> result.errors1]
Song2(result) ==
    [slot |-> 2, row_index |-> result.row_index, email |-> result.email,
     url |-> result.url2, artist |-> result.artist2, title |-> result.title2,
     start_ts |-> result.start2, end_ts |-> result.end2, note |-> result.note2,
     errors |-> result.errors2]

\* the cells of one Songlist row; slot and row_index are not in the sheet,
\* they name the song request the row was written for
SongCells(song, start_seconds, end_seconds, counter) ==
    [url |-> song.url, artist |-> song.artist, title |-> song.title,
     description |-> <<>>, requester |-> song.email,
     start_minute |-> start_seconds \div 60, start_second |-> start_seconds % 60,
     end_minute |-> end_seconds \div 60, end_second |-> end_seconds % 60,
     start_seconds |-> start_seconds, end_seconds |-> end_seconds,
     num |-> counter,
     note |-> IF song.note.null THEN <<>> ELSE song.note.s,
     errors |-> JoinErrors(song.errors),
     fill |-> IF song.errors # <<>> THEN "error" ELSE "",
     slot |-> song.slot, row_index |-> song.row_index]

\* variant: rejected songs are left out
Skip_rejected(song) == NotUrl(song.url) \/ song.errors # <<>>

\* "if not result['url1']: continue" and
\* "if not result['url2'] or pd.isna(result['url2']): continue"
Skip(song) == NotUrl(song.url)

\* the body of either Songlist loop for one song
WriteSong(song, start_seconds, end_seconds) ==
    IF Skip(song)
    THEN /\ cursor' = cursor + 1
         /\ UNCHANGED <<pc, exc, ws_songlist, row_num, song_counter>>
    ELSE IF start_seconds.raised \/ end_seconds.raised
    THEN /\ Crash(IF start_seconds.raised THEN start_seconds.exc
                  ELSE end_seconds.exc, "songlist")
         /\ UNCHANGED <<cursor, ws_songlist, row_num, song_counter>>
    ELSE /\ ws_songlist' = WriteRow(ws_songlist, row_num,
               SongCells(song, start_seconds.val, end_seconds.val, song_counter))
         /\ row_num' = row_num + 1
         /\ song_counter' = song_counter + 1
         /\ cursor' = cursor + 1
         /\ UNCHANGED <<pc, exc>>

\* one iteration of the first "for result in results"
Song1Row ==
    /\ pc = "songs1"
    /\ cursor < Len(results)
    /\ WriteSong(Song1(results[cursor + 1]),
                 parse_timestamp(results[cursor + 1].start1),
                 parse_timestamp(results[cursor + 1].end1))
    /\ UNCHANGED <<call, nrows, batch, blocked_songs, results, idx, ws_messages>>

\* variant: the numbering starts again for the second songs
BeginSecondSongs_restart ==
    /\ pc = "songs1"
    /\ cursor = Len(results)
    /\ pc' = "songs2"
    /\ cursor' = 0
    /\ song_counter' = 1
    /\ UNCHANGED <<call, exc, nrows, batch, blocked_songs, results, idx,
                   ws_messages, ws_songlist, row_num>>

\* the first loop is over; row_num and song_counter run on
BeginSecondSongs ==
    /\ pc = "songs1"
    /\ cursor = Len(results)
    /\ pc' = "songs2"
    /\ cursor' = 0
    /\ UNCHANGED <<call, exc, nrows, batch, blocked_songs, results, idx,
                   ws_messages, ws_songlist, row_num, song_counter>>

\* one iteration of the second "for result in results"
Song2Row ==
    /\ pc = "songs2"
    /\ cursor < Len(results)
    /\ WriteSong(Song2(results[cursor + 1]),
                 parse_timestamp(results[cursor + 1].start2),
                 parse_timestamp(results[cursor + 1].end2))
    /\ UNCHANGED <<call, nrows, batch, blocked_songs, results, idx, ws_messages>>

\* wb.save(output_file)
Save ==
    /\ pc = "songs2"
    /\ cursor = Len(results)
    /\ pc' = "done"
    /\ UNCHANGED <<call, exc, nrows, batch, blocked_songs, results, idx,
                   ws_messages, ws_songlist, cursor, row_num, song_counter>>

Next ==
    \/ ReadInput
    \/ ProcessRow
    \/ BeginMessages
    \/ MessageRow
    \/ BeginSonglist
    \/ Song1Row
    \/ BeginSecondSongs
    \/ Song2Row
    \/ Save

Spec == Init /\ [][Next]_vars

\* ===================================================== claims on functions
\* the check that produced entry i of a list of reasons
ReasonCheck(errors, i) == CheckOf(errors[i][1].k)

\* the result of check k on the inputs of a validate_song call
CheckOn(c, k) ==
    LET vi == get_youtube_info(clean_youtube_url(c.url), c.outcome)
    IN  CASE k = 1 -> check_artist_title_match(vi, c.artist, c.title)
          [] k = 2 -> check_is_lyric_video(vi)
          [] k = 3 -> check_duration(c.start_ts, c.end_ts)
          [] k = 4 -> check_age_restriction(vi)
          [] k = 5 -> check_blocked_song(c.artist, c.title, c.blocked)
CheckFails(c, k) == ~CheckOn(c, k).raised /\ ~CheckOn(c, k).ok

\* a URL cell that is missing, empty or only white space
NoUrlGiven(url) == url.null \/ strip(url.toks) = <<>>

\* C1 (as claimed): for a song with a non-blank URL, whatever the metadata
\* outcome, the returned Verdict holds a reason of check k exactly when
\* check k's failure condition holds, for each of the five checks.  (The
\* "YouTube error" reason of validate_song is counted as the fetch-failure
\* reason of checks 1 and 2.)
C1_AllChecksEvaluated ==
    (call.fn = "validate_song" /\ ~NoUrlGiven(call.url) /\ ~call.res.raised) =>
        \A k \in 1..5 :
            (\E i \in 1..Len(call.res.errors) :
                \/ ReasonCheck(call.res.errors, i) = k
                \/ k \in {1, 2} /\ call.res.errors[i][1].k = "yt_error")
            <=> CheckFails(call, k)

\* C2: handed a fetch failure, the artist/title check and the lyric-video
\* check report failure and the age-restriction check reports pass.
C2_FetchFailurePolicy ==
    (call.fn = "checks" /\ call.video_info.error) =>
        /\ ~call.match.raised /\ ~call.match.ok
        /\ ~call.lyric.raised /\ ~call.lyric.ok
        /\ ~call.age.raised /\ call.age.ok

C2_Witness ==
    /\ call.fn = "checks"
    /\ call.video_info.error
    /\ ~call.artist.null
    /\ ~call.match.ok /\ ~call.lyric.ok /\ call.age.ok

\* C3: in a returned Verdict the reasons stand in the order of the checks
\* that produced them, and every check that ran and failed has exactly one
\* entry, every other check none.
C3_ReasonOrder ==
    (call.fn = "validate_song" /\ ~call.res.raised) =>
        LET errs == call.res.errors
        IN  /\ \A i, j \in 1..Len(errs) :
                  i < j => ReasonCheck(errs, i) < ReasonCheck(errs, j)
            /\ \A k \in 1..5 :
                  Cardinality({i \in 1..Len(errs) : ReasonCheck(errs, i) = k})
                  = IF k \in Range(call.res.ran) /\ CheckFails(call, k)
                    THEN 1 ELSE 0

C3_Witness ==
    /\ call.fn = "validate_song"
    /\ ~call.res.raised
    /\ Len(call.res.errors) = 5
    /\ \A k \in 1..5 : ReasonCheck(call.res.errors, k) = k

\* C7: the duration check passes exactly when both timestamps parse to
\* seconds with 0 < end - start <= 90; 90 seconds pass, 91 fail, a zero or
\* negative length fails, two unparseable timestamps (both 0) fail.
C7_DurationBoundary ==
    call.fn = "check_duration" =>
        LET s == parse_timestamp(call.start_ts)
            e == parse_timestamp(call.end_ts)
            defined == ~s.raised /\ ~e.raised
            d == e.val - s.val
            passes == ~call.res.raised /\ call.res.ok
            fails == ~call.res.raised /\ ~call.res.ok
            at(a, b) == call.start_ts = a /\ call.end_ts = b
        IN  /\ passes <=> (defined /\ 0 < d /\ d <= 90)
            /\ (defined /\ (d <= 0 \/ d > 90)) => fails
            /\ at(Ts(<<IntLex(0)>>), Ts(<<IntLex(90)>>)) => passes
            /\ at(Ts(<<IntLex(0)>>), Ts(<<IntLex(91)>>)) => fails
            /\ at(Ts(<<IntLex(50)>>), Ts(<<IntLex(0), IntLex(10)>>)) => fails
            /\ at(Ts(<<Lex("junk", 0)>>), Ts(<<Lex("junk", 0)>>)) => fails

C7_Witness ==
    /\ call.fn = "check_duration"
    /\ call.start_ts = Ts(<<IntLex(0)>>)
    /\ call.end_ts = Ts(<<IntLex(1), IntLex(30)>>)
    /\ call.res.ok

\* the seconds the description of parse_timestamp gives for a timestamp
AllInt(parts) == \A i \in 1..Len(parts) : parts[i].cls = "int"
ExpectedSeconds(ts) ==
    IF ts.null THEN 0
    ELSE LET p == ts.parts
         IN  IF Len(p) = 3 /\ AllInt(p)
             THEN IF p[1].v < 10 /\ p[3].v = 0
                  THEN p[1].v * 60 + p[2].v
                  ELSE p[1].v * 3600 + p[2].v * 60 + p[3].v
             ELSE IF Len(p) = 2 /\ AllInt(p) THEN p[1].v * 60 + p[2].v
             ELSE IF Len(p) = 1 /\ p[1].cls = "int" THEN p[1].v
             ELSE IF Len(p) = 1 /\ p[1].cls = "dec"
                  THEN (IF p[1].v < 0 THEN -1 ELSE 1)
                       * ((IF p[1].v < 0 THEN -p[1].v ELSE p[1].v) \div 10)
             ELSE 0

\* C8 (as claimed): parse_timestamp is total: it returns the seconds of
\* its description for every input and never raises.
C8_ParseTotal ==
    call.fn = "parse_timestamp" =>
        /\ ~call.res.raised
        /\ call.res.val = ExpectedSeconds(call.ts)

\* C10 (as claimed): for a missing or blank URL validate_song returns the
\* single reason "no URL provided" and a null canonical URL, without a
\* metadata lookup and without running a check.
C10_NoUrl ==
    (call.fn = "validate_song" /\ NoUrlGiven(call.url)) =>
        /\ ~call.res.raised
        /\ call.res.errors = <<Msg("no_url")>>
        /\ call.res.clean_url = NullUrl
        /\ ~call.res.fetched
        /\ call.res.ran = <<>>

\* ===================================================== claims on the batch
\* the Songlist rows written for slot s of the submission with index x
RowsFor(x, s) ==
    {r \in DOMAIN ws_songlist :
        ws_songlist[r].row_index = x /\ ws_songlist[r].slot = s}

SongOf(result, s) == IF s = 1 THEN Song1(result) ELSE Song2(result)

\* C4: in the saved workbook every song request, first or second, with a
\* canonical URL has exactly one Songlist row, carrying its URL and its
\* reasons, flagged exactly when it has reasons.
C4_SonglistComplete ==
    pc = "done" =>
        /\ Len(results) = nrows
        /\ \A i \in 1..Len(results), s \in {1, 2} :
              LET song == SongOf(results[i], s)
                  rows == RowsFor(results[i].row_index, s)
              IN  ~song.url.null =>
                    /\ Cardinality(rows) = 1
                    /\ \A r \in rows :
                          /\ ws_songlist[r].url = song.url
                          /\ ws_songlist[r].errors = JoinErrors(song.errors)
                          /\ ws_songlist[r].fill = "error" <=> song.errors # <<>>

C4_Witness ==
    /\ pc = "done"
    /\ \E r \in DOMAIN ws_songlist :
          ws_songlist[r].slot = 1 /\ ws_songlist[r].fill = "error"
    /\ \E r \in DOMAIN ws_songlist :
          ws_songlist[r].slot = 2 /\ ws_songlist[r].fill = "error"
    /\ \E r \in DOMAIN ws_songlist : ws_songlist[r].fill = ""

\* C5: the data rows of the Songlist sheet are rows 2, 3, ... without a
\* gap, the k-th of them carries the number k, the rows of first songs
\* stand before the rows of second songs, and within each group the rows
\* follow the order of the submissions.
C5_SonglistOrder ==
    LET rows == DOMAIN ws_songlist
    IN  /\ rows = 2..(Cardinality(rows) + 1)
        /\ \A r \in rows : ws_songlist[r].num = r - 1
        /\ \A r \in rows : (r + 1) \in rows =>
              \/ ws_songlist[r].slot < ws_songlist[r + 1].slot
              \/ /\ ws_songlist[r].slot = ws_songlist[r + 1].slot
                 /\ ws_songlist[r].row_index < ws_songlist[r + 1].row_index

C5_Witness ==
    /\ pc = "done"
    /\ \E r \in DOMAIN ws_songlist : ws_songlist[r].slot = 1
    /\ \E r \in DOMAIN ws_songlist : ws_songlist[r].slot = 2 /\ r > 3
    /\ \E i, j \in 1..Len(results) :
          i < j /\ NotUrl(results[i].url1) /\ ~NotUrl(results[j].url1)

C9_NoSongAbortsBatch ==
    ~(pc = "crashed" /\ exc.at \in {"validate_song", "songlist"})

\* C11: a submission whose second URL cell is missing or empty has no
\* metadata lookup for its second song, an empty second Verdict and a null
\* second canonical URL, no Songlist row for the second song, and its
\* Messages row shows only the reasons of the first song, whatever the
\* other cells of the second song hold.
C11_AbsentSecondSong ==
    \A i \in 1..Len(results) :
        (results[i].given2.null \/ results[i].given2.toks = <<>>) =>
            /\ ~results[i].fetched2
            /\ results[i].errors2 = <<>>
            /\ results[i].url2 = NullUrl
            /\ RowsFor(results[i].row_index, 2) = {}
            /\ (i + 1) \in DOMAIN ws_messages =>
                  ws_messages[i + 1].errors = JoinErrors(results[i].errors1)

C11_Witness ==
    /\ pc = "done"
    /\ \E i, j \in 1..Len(results) :
          /\ results[i].given2.null /\ ~results[i].artist2.null
          /\ RowsFor(results[i].row_index, 1) # {}
          /\ ~results[j].given2.null /\ results[j].given2.toks = <<>>
          /\ ~results[j].title2.null /\ ~results[j].end2.null
          /\ RowsFor(results[j].row_index, 1) # {}

\* C12 (as claimed): clean_youtube_url is idempotent on every non-blank
\* URL, with or without scheme, host or removed parameters, and its result
\* holds none of the parameters list, index, start_radio, pp.
C12_Idempotent ==
    (call.fn = "clean_youtube_url" /\ ~NoUrlGiven(call.url)) =>
        /\ call.again = call.res
        /\ \A t \in Range(call.res.toks) : ParamKey(t) \notin params_to_remove

\* the failures named by the segments of language t in a list of strings
Keys(list, t) ==
    UNION {{e[j].k : j \in {x \in 1..Len(e) : e[x].t = t}} : e \in Range(list)}

\* C13 (as claimed): the message of a submission whose first Verdict is
\* not empty is in the submitter's language and lists every failure of the
\* Verdict, the artist failure and the title failure both when both fire,
\* by its segment of that language, and shows no segment of the other
\* language.
C13_MessageListsFailures ==
    \A i \in 1..Len(results) :
        results[i].errors1 # <<>> =>
            LET m == results[i].message
                own == IF IsGerman(results[i].language) THEN "de" ELSE "en"
                other == IF own = "de" THEN "en" ELSE "de"
            IN  /\ m.lang = own
                /\ ~m.accepted
                /\ Keys(m.error_list, own) = Keys(results[i].errors1, own)
                /\ Keys(m.error_list, other) = {}

====
